---- MODULE Spec2Model ----
(***************************************************************************)
(* A model of src/src/layers.rs: the layer node, its content age, the      *)
(* buffer requests it hands out and the tile buffers that come back.       *)
(*                                                                         *)
(* The tile grid (tiling::TileGrid) and the native surface                 *)
(* (platform::surface::NativeSurface) are collaborators whose code is not  *)
(* part of layers.rs; they are modelled from the specification and marked  *)
(* so below.  The painting task and the compositor that call the layer     *)
(* are the environment: they may call every public operation in any order  *)
(* the types allow.                                                        *)
(***************************************************************************)
EXTENDS Integers, Sequences, FiniteSets, TLC

(***************************************************************************)
(* Bounds of the model.                                                    *)
(***************************************************************************)
\* usize is modelled UsizeBits wide, so that the largest value is reached
\* and a product of two values can pass it.
UsizeBits == 2
\* The longest child list add_child builds.
MaxChildren == 2
\* The number of native surfaces the painting task ever creates, and so of
\* tiles it paints.
MaxSurfaces == 2
\* How often the contents change while tile buffers are followed.
MaxChanges == 1
\* f32 is modelled with a significand of F32Bits bits.
F32Bits == 2

UsizeMax == (2 ^ UsizeBits) - 1

(***************************************************************************)
(* Geometry values (geom::point, geom::size, geom::rect).  Coordinates are *)
(* small whole numbers, which f32 and usize both represent exactly.        *)
(***************************************************************************)
Point2D(x, y) == [x |-> x, y |-> y]

Size2D(w, h) == [width |-> w, height |-> h]

Rect(x, y, w, h) == [origin |-> Point2D(x, y), size |-> Size2D(w, h)]

\* TypedSize2D * ScaleFactor
SizeTimesScale(s, scale) == Size2D(s.width * scale, s.height * scale)

\* TypedRect * ScaleFactor
RectTimesScale(r, scale) ==
    [origin |-> Point2D(r.origin.x * scale, r.origin.y * scale),
     size |-> SizeTimesScale(r.size, scale)]

\* geom::matrix::identity
identity == "identity"

\* Point2D::zero
Point2D_zero == Point2D(0, 0)

(***************************************************************************)
(* usize and f32 arithmetic.                                               *)
(*                                                                         *)
(* An f32 is a whole number of units that a significand of F32Bits bits    *)
(* and a power of two make up; the unit is the fraction 1 / OneMillionth   *)
(* of 1.0e-6.  Arithmetic rounds its exact result to the nearest such      *)
(* number, a tie to the one with the even significand.                     *)
(***************************************************************************)
\* a * b on usize.  A product past the largest value overflows: a build
\* with overflow checks panics, a build without them keeps the low bits.
usize_mul(a, b) ==
    IF a * b <= UsizeMax
    THEN {[panic |-> FALSE, value |-> a * b]}
    ELSE {[panic |-> TRUE, value |-> 0],
          [panic |-> FALSE, value |-> (a * b) % (2 ^ UsizeBits)]}

RECURSIVE f32_step(_, _)
\* The distance between neighbouring f32 values at the size of x >= 0,
\* found from the candidate `step` upwards.
f32_step(x, step) ==
    IF x < (2 ^ F32Bits) * step THEN step ELSE f32_step(x, 2 * step)

\* The f32 nearest to the number x >= 0.
f32_round(x) ==
    LET step == f32_step(x, 1)
        lo == (x \div step) * step
        hi == lo + step
    IN  IF x = lo THEN x
        ELSE IF x - lo < hi - x THEN lo
        ELSE IF x - lo > hi - x THEN hi
        ELSE IF (lo \div step) % 2 = 0 THEN lo ELSE hi

\* (a - b).abs() on f32: the difference is rounded, and taking the absolute
\* value of an f32 is exact.
f32_abs_sub(a, b) == f32_round(IF a >= b THEN a - b ELSE b - a)

\* The number 1.0e-6 in units.  It is no binary fraction: at every width of
\* the significand it lies between two neighbouring f32 values, nearer to
\* the lower one.
OneMillionth == (2 ^ (F32Bits + 1)) + 1

\* The literal `1.0e-6` of type f32.
f32_1_0e_6 == f32_round(OneMillionth)

(***************************************************************************)
(* ContentAge                                                              *)
(***************************************************************************)
ContentAge_new == [age |-> 0]

\* `self.age += 1` on a usize.  At the largest value the addition overflows:
\* a build with overflow checks panics and leaves the value, a build
\* without them wraps to 0.  The set holds every outcome a build produces.
ContentAge_next(a) ==
    IF a.age < UsizeMax
    THEN {[panic |-> FALSE, value |-> [age |-> a.age + 1]]}
    ELSE {[panic |-> TRUE, value |-> a],
          [panic |-> FALSE, value |-> [age |-> (a.age + 1) % (2 ^ UsizeBits)]]}

(***************************************************************************)
(* BufferRequest                                                           *)
(***************************************************************************)
BufferRequest_new(screen_rect, page_rect, content_age) ==
    [screen_rect |-> screen_rect,
     page_rect |-> page_rect,
     content_age |-> content_age]

(***************************************************************************)
(* NativeSurface: the platform resource behind a tile buffer.  A buffer    *)
(* value names its surface; the surface's own state lives in `surfaces`.   *)
(*   state    "none" (not created yet), "live", "destroyed" (destroy was   *)
(*            called on it) or "dropped" (its owner let go of it without   *)
(*            destroy)                                                     *)
(*   mark     the leak mark: "default" as created, "will_leak" after       *)
(*            mark_will_leak, "wont_leak" after mark_wont_leak             *)
(*   destroys how often destroy was called on it                           *)
(***************************************************************************)
SurfaceIds == 1 .. MaxSurfaces

NativeSurface_new == [state |-> "live", mark |-> "default", destroys |-> 0]

NoSurface == [state |-> "none", mark |-> "default", destroys |-> 0]

NativeSurface_mark_will_leak(s) == [s EXCEPT !.mark = "will_leak"]

NativeSurface_mark_wont_leak(s) == [s EXCEPT !.mark = "wont_leak"]

NativeSurface_destroy(s) ==
    [s EXCEPT !.state = "destroyed", !.destroys = s.destroys + 1]

\* What becomes of a surface whose buffer is let go of without destroy.
NativeSurface_drop(s) ==
    IF s.state = "live" THEN [s EXCEPT !.state = "dropped"] ELSE s

(***************************************************************************)
(* LayerBuffer                                                             *)
(***************************************************************************)
LayerBuffer(native_surface, rect, screen_pos, resolution, stride, painted_with_cpu, content_age) ==
    [native_surface |-> native_surface,
     rect |-> rect,
     screen_pos |-> screen_pos,
     resolution |-> resolution,
     stride |-> stride,
     painted_with_cpu |-> painted_with_cpu,
     content_age |-> content_age]

\* self.screen_pos.size.width * self.screen_pos.size.height
get_mem(buffer) ==
    usize_mul(buffer.screen_pos.size.width, buffer.screen_pos.size.height)

\* A mutant of LayerBuffer::is_valid: a difference equal to the constant
\* counts as valid.
is_valid_inclusive(buffer, scale) ==
    f32_abs_sub(buffer.resolution, scale) <= f32_1_0e_6

\* (self.resolution - scale).abs() < 1.0e-6
is_valid(buffer, scale) ==
    f32_abs_sub(buffer.resolution, scale) < f32_1_0e_6

\* self.screen_pos.size
get_size_2d(buffer) == buffer.screen_pos.size

\* self.native_surface.mark_wont_leak()
LayerBuffer_mark_wont_leak(buffer, surf) ==
    [surf EXCEPT ![buffer.native_surface] = NativeSurface_mark_wont_leak(@)]

\* A mutant of LayerBuffer::destroy: it borrows the buffer (&mut self)
\* instead of taking it, so the caller still holds the buffer afterwards.
LayerBuffer_destroy_borrowing(buffer, surf) ==
    [surfaces |-> [surf EXCEPT ![buffer.native_surface] = NativeSurface_destroy(@)],
     kept |-> <<buffer>>]

\* destroy(self, graphics_context): the buffer is moved into the call, its
\* surface is destroyed and the value ends with the call.  `kept` is what
\* the caller still holds of the buffer afterwards: nothing.
LayerBuffer_destroy(buffer, surf) ==
    [surfaces |-> [surf EXCEPT ![buffer.native_surface] = NativeSurface_destroy(@)],
     kept |-> <<>>]

(***************************************************************************)
(* LayerBufferSet                                                          *)
(***************************************************************************)
RECURSIVE MarkEach(_, _, _)
\* The loop `for buffer in self.buffers.iter_mut()` from position i on.
MarkEach(buffers, i, surf) ==
    IF i > Len(buffers)
    THEN surf
    ELSE MarkEach(buffers, i + 1,
                  [surf EXCEPT ![buffers[i].native_surface] =
                                   NativeSurface_mark_will_leak(@)])

\* A mutant of LayerBufferSet::mark_will_leak: the loop misses the last
\* buffer.
LayerBufferSet_mark_will_leak_short(buffers, surf) ==
    MarkEach(SubSeq(buffers, 1, Len(buffers) - 1), 1, surf)

LayerBufferSet_mark_will_leak(buffers, surf) == MarkEach(buffers, 1, surf)

(***************************************************************************)
(* TileGrid, the collaborator that pools a layer's tile buffers.  Its code *)
(* is not in layers.rs; what follows is the contract the specification     *)
(* gives it, on the interface layers.rs calls.  The grid sees only what    *)
(* the layer passes to it: the tile size, the device rectangle, the device *)
(* size and the content age of get_buffer_requests_in_rect, and the        *)
(* buffers of add_buffer.                                                  *)
(*   tiles           the pooled buffers on display, one per tile position  *)
(*   unused_buffers  the buffers no longer needed, in the order discarded  *)
(*   content_age     the content age last passed in, NoAge before that     *)
(***************************************************************************)
NoAge == [age |-> -1]

TileGrid_new(tile_size) ==
    [tile_size |-> tile_size,
     tiles |-> {},
     unused_buffers |-> <<>>,
     content_age |-> NoAge]

Min(a, b) == IF a < b THEN a ELSE b

\* The tile positions that cover the part of `rect` inside 0..size, in row
\* order, each as the screen rectangle of the tile.
TilesInRect(tile_size, rect, size) ==
    LET x0 == rect.origin.x
        y0 == rect.origin.y
        x1 == Min(x0 + rect.size.width, size.width)
        y1 == Min(y0 + rect.size.height, size.height)
        i0 == x0 \div tile_size
        j0 == y0 \div tile_size
        cols == IF x1 > x0 THEN ((x1 - 1) \div tile_size) - i0 + 1 ELSE 0
        rows == IF y1 > y0 THEN ((y1 - 1) \div tile_size) - j0 + 1 ELSE 0
    IN  [k \in 1 .. (cols * rows) |->
            Rect((i0 + ((k - 1) % cols)) * tile_size,
                 (j0 + ((k - 1) \div cols)) * tile_size,
                 tile_size, tile_size)]

\* One request per tile of the rectangle that has no pooled buffer of the
\* given content age, each tagged with that content age.
TileGrid_get_buffer_requests_in_rect(grid, rect, size, content_age) ==
    LET wanted == TilesInRect(grid.tile_size, rect, size)
        Missing(t) == ~ \E b \in grid.tiles :
                            b.screen_pos = t /\ b.content_age = content_age
        todo == SelectSeq(wanted, Missing)
    IN  [grid |-> [grid EXCEPT !.content_age = content_age],
         requests |-> [k \in 1 .. Len(todo) |->
                          BufferRequest_new(todo[k], todo[k], content_age)]]

RECURSIVE SetToSeq(_)
\* The buffers of a set, in the order of their surfaces.
SetToSeq(S) ==
    IF S = {}
    THEN <<>>
    ELSE LET b == CHOOSE x \in S : \A y \in S : x.native_surface <= y.native_surface
         IN  <<b>> \o SetToSeq(S \ {b})

\* A delivered buffer of the content age the grid was last given takes its
\* tile's place in the pool, and the buffer it replaces becomes unused; a
\* buffer of any other content age is not pooled and becomes unused at once.
TileGrid_add_buffer(grid, buffer) ==
    IF buffer.content_age = grid.content_age
    THEN LET old == {b \in grid.tiles : b.screen_pos = buffer.screen_pos}
         IN  [grid EXCEPT !.tiles = (grid.tiles \ old) \cup {buffer},
                          !.unused_buffers = grid.unused_buffers \o SetToSeq(old)]
    ELSE [grid EXCEPT !.unused_buffers = Append(grid.unused_buffers, buffer)]

TileGrid_take_unused_buffers(grid) ==
    [grid |-> [grid EXCEPT !.unused_buffers = <<>>],
     buffers |-> grid.unused_buffers]

TileGrid_collect_buffers(grid) ==
    [grid |-> [grid EXCEPT !.tiles = {}, !.unused_buffers = <<>>],
     buffers |-> SetToSeq(grid.tiles) \o grid.unused_buffers]

\* Every buffer the grid holds.
TileGrid_buffers(grid) ==
    grid.tiles \cup {grid.unused_buffers[k] : k \in DOMAIN grid.unused_buffers}

(***************************************************************************)
(* Layer.  A layer is a record of the struct's fields.  Every method is an *)
(* operator from the layer and the arguments to the set of its outcomes:   *)
(*   panic  whether the call ended in a panic                              *)
(*   layer  the layer after the call                                       *)
(*   ret    the value returned (Unit for none)                             *)
(*                                                                         *)
(* children and tile_grid are RefCells: next to its value each keeps a     *)
(* borrow flag, 0 when unused, -1 while mutably borrowed, and the number   *)
(* of shared borrows otherwise (children_borrow, tile_grid_borrow).  The   *)
(* other RefCells are borrowed only for the length of one statement of     *)
(* one method, and their flags are left out.                               *)
(***************************************************************************)
Unit == "unit"

Returns(layer, ret) == [panic |-> FALSE, layer |-> layer, ret |-> ret]

Panics(layer) == [panic |-> TRUE, layer |-> layer, ret |-> Unit]

\* A mutant of RefCell::borrow_mut: the flag is not looked at, as with a
\* cell that hands out unchecked references.
borrow_mut_unchecked(flag, layer, outcomes) == outcomes

\* RefCell::borrow_mut for the length of a call with the given outcomes: it
\* panics unless the cell is unused, and the guard is dropped, and the flag
\* is back at 0, when the call is over.
borrow_mut(flag, layer, outcomes) ==
    IF flag # 0 THEN {Panics(layer)} ELSE outcomes

\* RefCell::borrow, likewise: it panics while the cell is mutably borrowed.
borrow(flag, layer, outcomes) ==
    IF flag < 0 THEN {Panics(layer)} ELSE outcomes

\* A mutant of Layer::new: the layer starts clipping and one change old.
Layer_new_other(bounds, tile_size, background_color, opacity, data) ==
    [children |-> <<>>,
     transform |-> identity,
     bounds |-> bounds,
     tile_size |-> tile_size,
     extra_data |-> data,
     tile_grid |-> TileGrid_new(tile_size),
     content_age |-> [age |-> 1],
     masks_to_bounds |-> TRUE,
     content_offset |-> Point2D_zero,
     background_color |-> background_color,
     opacity |-> opacity,
     children_borrow |-> 0,
     tile_grid_borrow |-> 0]

Layer_new(bounds, tile_size, background_color, opacity, data) ==
    [children |-> <<>>,
     transform |-> identity,
     bounds |-> bounds,
     tile_size |-> tile_size,
     extra_data |-> data,
     tile_grid |-> TileGrid_new(tile_size),
     content_age |-> ContentAge_new,
     masks_to_bounds |-> FALSE,
     content_offset |-> Point2D_zero,
     background_color |-> background_color,
     opacity |-> opacity,
     children_borrow |-> 0,
     tile_grid_borrow |-> 0]

\* self.children.borrow_mut(): the guard is returned to the caller, and the
\* cell stays mutably borrowed until the caller drops it.
children(layer) ==
    borrow_mut(layer.children_borrow, layer,
        {Returns([layer EXCEPT !.children_borrow = -1], "RefMut")})

\* The guard that children() returned is dropped.
drop_children(layer) == [layer EXCEPT !.children_borrow = 0]

\* A mutant of Layer::add_child: the child is put first, not last.
add_child_front(layer, new_child) ==
    borrow_mut(layer.children_borrow, layer,
        {Returns([layer EXCEPT !.children = <<new_child>> \o layer.children], Unit)})

\* self.children().push(new_child)
add_child(layer, new_child) ==
    borrow_mut(layer.children_borrow, layer,
        {Returns([layer EXCEPT !.children = Append(layer.children, new_child)], Unit)})

\* Vec::remove: the elements before `index`, then those after it.
VecRemove(v, index) ==
    [k \in 1 .. (Len(v) - 1) |-> IF k <= index THEN v[k] ELSE v[k + 1]]

\* A mutant of Layer::remove_child_at_index: an index that is not below the
\* length is ignored, as by a checked removal.
remove_child_at_index_lenient(layer, index) ==
    borrow_mut(layer.children_borrow, layer,
        IF index >= Len(layer.children)
        THEN {Returns(layer, Unit)}
        ELSE {Returns([layer EXCEPT !.children = VecRemove(layer.children, index)], Unit)})

\* self.children().remove(index); Vec::remove panics when index is not
\* below the length.  `index` counts from 0.
remove_child_at_index(layer, index) ==
    borrow_mut(layer.children_borrow, layer,
        IF index >= Len(layer.children)
        THEN {Panics(layer)}
        ELSE {Returns([layer EXCEPT !.children = VecRemove(layer.children, index)], Unit)})

\* A mutant of Layer::get_buffer_requests: the requests are tagged with the
\* content age of a new layer, not with the layer's own.
get_buffer_requests_untagged(layer, rect_in_layer, scale) ==
    LET r == TileGrid_get_buffer_requests_in_rect(
                 layer.tile_grid,
                 RectTimesScale(rect_in_layer, scale),
                 SizeTimesScale(layer.bounds.size, scale),
                 ContentAge_new)
    IN  borrow_mut(layer.tile_grid_borrow, layer,
            {Returns([layer EXCEPT !.tile_grid = r.grid], r.requests)})

\* A mutant of Layer::get_buffer_requests: the rectangle is passed on in
\* layer pixels, without the scale.
get_buffer_requests_unscaled(layer, rect_in_layer, scale) ==
    LET r == TileGrid_get_buffer_requests_in_rect(
                 layer.tile_grid,
                 rect_in_layer,
                 SizeTimesScale(layer.bounds.size, scale),
                 layer.content_age)
    IN  borrow_mut(layer.tile_grid_borrow, layer,
            {Returns([layer EXCEPT !.tile_grid = r.grid], r.requests)})

\* tile_grid.get_buffer_requests_in_rect(rect_in_layer * scale,
\*     self.bounds.borrow().size * scale, *self.content_age.borrow())
get_buffer_requests(layer, rect_in_layer, scale) ==
    LET r == TileGrid_get_buffer_requests_in_rect(
                 layer.tile_grid,
                 RectTimesScale(rect_in_layer, scale),
                 SizeTimesScale(layer.bounds.size, scale),
                 layer.content_age)
    IN  borrow_mut(layer.tile_grid_borrow, layer,
            {Returns([layer EXCEPT !.tile_grid = r.grid], r.requests)})

\* A mutant of Layer::resize: the whole of bounds is replaced, the origin
\* with the new size's numbers too.
resize_moving(layer, new_size) ==
    {Returns([layer EXCEPT !.bounds = [origin |-> Point2D(new_size.width, new_size.height),
                                       size |-> new_size]], Unit)}

\* self.bounds.borrow_mut().size = new_size
resize(layer, new_size) ==
    {Returns([layer EXCEPT !.bounds.size = new_size], Unit)}

\* self.tile_grid.borrow_mut().add_buffer(tile)
add_buffer(layer, tile) ==
    borrow_mut(layer.tile_grid_borrow, layer,
        {Returns([layer EXCEPT !.tile_grid = TileGrid_add_buffer(layer.tile_grid, tile)],
                 Unit)})

\* self.tile_grid.borrow_mut().take_unused_buffers()
collect_unused_buffers(layer) ==
    LET r == TileGrid_take_unused_buffers(layer.tile_grid)
    IN  borrow_mut(layer.tile_grid_borrow, layer,
            {Returns([layer EXCEPT !.tile_grid = r.grid], r.buffers)})

\* A mutant of Layer::collect_buffers: the caller gets the buffers and the
\* grid keeps them too, as if they were cloned out.
collect_buffers_keeping(layer) ==
    LET r == TileGrid_collect_buffers(layer.tile_grid)
    IN  borrow_mut(layer.tile_grid_borrow, layer, {Returns(layer, r.buffers)})

\* self.tile_grid.borrow_mut().collect_buffers()
collect_buffers(layer) ==
    LET r == TileGrid_collect_buffers(layer.tile_grid)
    IN  borrow_mut(layer.tile_grid_borrow, layer,
            {Returns([layer EXCEPT !.tile_grid = r.grid], r.buffers)})

\* A mutant of Layer::contents_changed: the buffers on display, now stale,
\* are taken off display at once.
contents_changed_clearing(layer) ==
    {[panic |-> o.panic,
      layer |-> [layer EXCEPT !.content_age = o.value,
                              !.tile_grid.unused_buffers = @ \o SetToSeq(layer.tile_grid.tiles),
                              !.tile_grid.tiles = {}],
      ret |-> Unit] : o \in ContentAge_next(layer.content_age)}

\* self.content_age.borrow_mut().next()
contents_changed(layer) ==
    {[panic |-> o.panic,
      layer |-> [layer EXCEPT !.content_age = o.value],
      ret |-> Unit] : o \in ContentAge_next(layer.content_age)}

\* The grid makes textures for its pooled buffers; textures are not part
\* of the model, and the pool is left as it is.
create_textures(layer) ==
    borrow_mut(layer.tile_grid_borrow, layer, {Returns(layer, Unit)})

\* What the visitor f does when it is called with a tile.  It is a
\* Fn(&Tile): through the tile it can only read, and through what it has
\* captured it can call the layer it is visiting.
\*   f.call  the method of the layer it calls, "read" for none
\*   f.tile  the buffer it passes to add_buffer, as a list of one
Visit(l, f) ==
    CASE f.call = "add_buffer" -> add_buffer(l, f.tile[1])
      [] f.call = "collect_buffers" -> collect_buffers(l)
      [] f.call = "collect_unused_buffers" -> collect_unused_buffers(l)
      [] f.call = "get_buffer_requests" -> get_buffer_requests(l, Rect(0, 0, 2, 1), 1)
      [] f.call = "create_textures" -> create_textures(l)
      [] OTHER -> {Returns(l, Unit)}

RECURSIVE TileGrid_do_for_all_tiles(_, _, _)
\* The grid calls the visitor once for each of the n tiles it pools; a
\* panic of the visitor ends the loop.
TileGrid_do_for_all_tiles(l, n, f) ==
    IF n = 0
    THEN {Returns(l, Unit)}
    ELSE UNION {IF o.panic THEN {o} ELSE TileGrid_do_for_all_tiles(o.layer, n - 1, f) :
                    o \in Visit(l, f)}

\* self.tile_grid.borrow().do_for_all_tiles(f): the grid is borrowed, shared,
\* for as long as the loop runs, and the borrow ends with the call, by
\* return or by unwinding.
do_for_all_tiles(layer, f) ==
    borrow(layer.tile_grid_borrow, layer,
        {[panic |-> o.panic,
          layer |-> [o.layer EXCEPT !.tile_grid_borrow = layer.tile_grid_borrow],
          ret |-> Unit] :
            o \in TileGrid_do_for_all_tiles(
                      [layer EXCEPT !.tile_grid_borrow = layer.tile_grid_borrow + 1],
                      Cardinality(layer.tile_grid.tiles), f)})

(***************************************************************************)
(* The state.                                                              *)
(*   layer       the layer                                                 *)
(*   layer_live  FALSE once the layer value has been dropped               *)
(*   panicked    TRUE once a call has panicked; the thread has ended       *)
(*   requests    the buffer requests the painting task holds               *)
(*   buffer_set  LayerBufferSet.buffers: the painted buffers on their way  *)
(*               from the painting task to the layer                       *)
(*   collected   the buffers the collect calls have returned to the caller *)
(*   surfaces    the native surfaces, by id                                *)
(*   last_op     the last call: its name, its arguments, what it returned  *)
(***************************************************************************)
VARIABLES layer, layer_live, panicked, requests, buffer_set, collected, surfaces, last_op

vars == <<layer, layer_live, panicked, requests, buffer_set, collected, surfaces, last_op>>

(***************************************************************************)
(* The arguments the callers pass.                                         *)
(***************************************************************************)
\* Rc<Layer<T>> handles of other layers.
ChildArgs == {"A", "B"}

BoundsArgs == {Rect(0, 0, 2, 1), Rect(1, 1, 1, 1)}

TileSizeArgs == {1, 2}

\* background_color, opacity, data
LooksArgs == {<<"white", 1, "d1">>, <<"black", 0, "d2">>}

SizeArgs == {Size2D(1, 1), Size2D(2, 1)}

RectArgs == {Rect(0, 0, 1, 1), Rect(0, 0, 2, 1)}

ScaleArgs == {1, 2}

Op(name, arg, ret) == [name |-> name, arg |-> arg, ret |-> ret]

\* The state after Layer::new with arguments from the given sets.
InitWith(Bounds, TileSizes, Looks) ==
    \E bounds \in Bounds, tile_size \in TileSizes, looks \in Looks :
        /\ layer = Layer_new(bounds, tile_size, looks[1], looks[2], looks[3])
        /\ layer_live = TRUE
        /\ panicked = FALSE
        /\ requests = {}
        /\ buffer_set = <<>>
        /\ collected = <<>>
        /\ surfaces = [id \in SurfaceIds |-> NoSurface]
        /\ last_op = Op("new", <<bounds, tile_size, looks[1], looks[2], looks[3]>>, Unit)

Init == InitWith(BoundsArgs, TileSizeArgs, LooksArgs)

\* A layer of 2 by 1 layer pixels with tiles of 2 device pixels.
InitTiles == InitWith({Rect(0, 0, 2, 1)}, {2}, {<<"white", 1, "d1">>})

\* The same layer with tiles of either size.
InitOwners == InitWith({Rect(0, 0, 2, 1)}, TileSizeArgs, {<<"white", 1, "d1">>})

(***************************************************************************)
(* Calls on the layer.  A call is made on a live layer by a thread that    *)
(* has not panicked.                                                       *)
(***************************************************************************)
Callable == layer_live /\ ~panicked

\* A call whose outcome o leaves everything but the layer alone.
LayerCall(name, arg, o) ==
    /\ layer' = o.layer
    /\ panicked' = o.panic
    /\ last_op' = Op(name, arg, o.ret)

AddChild ==
    /\ Callable
    /\ Len(layer.children) < MaxChildren
    /\ \E c \in ChildArgs : \E o \in add_child(layer, c) :
           LayerCall("add_child", c, o)
    /\ UNCHANGED <<layer_live, requests, buffer_set, collected, surfaces>>

RemoveChildAtIndex ==
    /\ Callable
    /\ \E index \in 0 .. MaxChildren : \E o \in remove_child_at_index(layer, index) :
           LayerCall("remove_child_at_index", index, o)
    /\ UNCHANGED <<layer_live, requests, buffer_set, collected, surfaces>>

Resize ==
    /\ Callable
    /\ \E new_size \in SizeArgs : \E o \in resize(layer, new_size) :
           LayerCall("resize", new_size, o)
    /\ UNCHANGED <<layer_live, requests, buffer_set, collected, surfaces>>

\* A mutant of contents_changed: the requests handed out share the layer's
\* counter instead of holding a copy of it, so they change with it.
ContentsChanged_shared ==
    /\ Callable
    /\ \E o \in contents_changed(layer) :
           /\ LayerCall("contents_changed", Unit, o)
           /\ requests' = {[r EXCEPT !.content_age = o.layer.content_age] : r \in requests}
    /\ UNCHANGED <<layer_live, buffer_set, collected, surfaces>>

ContentsChanged ==
    /\ Callable
    /\ \E o \in contents_changed(layer) : LayerCall("contents_changed", Unit, o)
    /\ UNCHANGED <<layer_live, requests, buffer_set, collected, surfaces>>

\* contents_changed while tile buffers are followed: the counter stays
\* within MaxChanges, away from the largest usize.
ContentsChangedBounded ==
    /\ layer.content_age.age < MaxChanges
    /\ ContentsChanged

Range(seq) == {seq[k] : k \in DOMAIN seq}

\* The surfaces the painting task has yet to create.
FreeSurfaces == {id \in SurfaceIds : surfaces[id].state = "none"}

\* The compositor sends the requests it gets on to the painting task, which
\* holds no more requests than it has surfaces left to paint them on.
GetBufferRequests ==
    /\ Callable
    /\ \E rect \in RectArgs, scale \in ScaleArgs :
         \E o \in get_buffer_requests(layer, rect, scale) :
           /\ Cardinality(requests \cup Range(o.ret)) <= Cardinality(FreeSurfaces)
           /\ LayerCall("get_buffer_requests", <<rect, scale>>, o)
           /\ requests' = requests \cup Range(o.ret)
    /\ UNCHANGED <<layer_live, buffer_set, collected, surfaces>>

RemoveAt(seq, i) == SubSeq(seq, 1, i - 1) \o SubSeq(seq, i + 1, Len(seq))

\* The compositor takes a buffer out of the set it received and delivers
\* it to the layer.
AddBuffer ==
    /\ Callable
    /\ \E i \in DOMAIN buffer_set : \E o \in add_buffer(layer, buffer_set[i]) :
           /\ LayerCall("add_buffer", buffer_set[i], o)
           /\ buffer_set' = RemoveAt(buffer_set, i)
    /\ UNCHANGED <<layer_live, requests, collected, surfaces>>

CollectUnusedBuffers ==
    /\ Callable
    /\ \E o \in collect_unused_buffers(layer) :
           /\ LayerCall("collect_unused_buffers", Unit, o)
           /\ collected' = collected \o o.ret
    /\ UNCHANGED <<layer_live, requests, buffer_set, surfaces>>

CollectBuffers ==
    /\ Callable
    /\ \E o \in collect_buffers(layer) :
           /\ LayerCall("collect_buffers", Unit, o)
           /\ collected' = collected \o o.ret
    /\ UNCHANGED <<layer_live, requests, buffer_set, surfaces>>

CreateTextures ==
    /\ Callable
    /\ \E o \in create_textures(layer) : LayerCall("create_textures", Unit, o)
    /\ UNCHANGED <<layer_live, requests, buffer_set, collected, surfaces>>

\* The visitors passed to do_for_all_tiles.
VisitorArgs ==
    {[call |-> c, tile |-> <<>>] :
        c \in {"read", "collect_buffers", "collect_unused_buffers",
               "get_buffer_requests", "create_textures"}}
      \cup {[call |-> "add_buffer", tile |-> <<buffer_set[i]>>] : i \in DOMAIN buffer_set}

DoForAllTiles ==
    /\ Callable
    /\ \E f \in VisitorArgs : \E o \in do_for_all_tiles(layer, f) :
           LayerCall("do_for_all_tiles", f, o)
    /\ UNCHANGED <<layer_live, requests, buffer_set, collected, surfaces>>

\* The caller takes the guard of the children and keeps it.
Children ==
    /\ Callable
    /\ \E o \in children(layer) : LayerCall("children", Unit, o)
    /\ UNCHANGED <<layer_live, requests, buffer_set, collected, surfaces>>

\* The caller drops the guard it keeps.
DropChildren ==
    /\ Callable
    /\ layer.children_borrow = -1
    /\ layer' = drop_children(layer)
    /\ last_op' = Op("drop_children", Unit, Unit)
    /\ UNCHANGED <<layer_live, panicked, requests, buffer_set, collected, surfaces>>

(***************************************************************************)
(* The painting task and the owners of buffers outside the layer.          *)
(***************************************************************************)
\* The painting task consumes a request and paints its tile into a buffer
\* on a new native surface; the buffer carries the request's rectangles
\* and content age.
Paint ==
    /\ ~panicked
    /\ FreeSurfaces # {}
    /\ \E r \in requests :
         LET id == CHOOSE x \in FreeSurfaces : \A y \in FreeSurfaces : x <= y
             buffer == LayerBuffer(id, r.page_rect, r.screen_rect, 1,
                                   r.screen_rect.size.width, TRUE, r.content_age)
         IN  /\ requests' = requests \ {r}
             /\ surfaces' = [surfaces EXCEPT ![id] = NativeSurface_new]
             /\ buffer_set' = Append(buffer_set, buffer)
             /\ last_op' = Op("paint", r, buffer)
    /\ UNCHANGED <<layer, layer_live, panicked, collected>>

\* LayerBufferSet::mark_will_leak on the set in flight.
SetMarkWillLeak ==
    /\ ~panicked
    /\ surfaces' = LayerBufferSet_mark_will_leak(buffer_set, surfaces)
    /\ last_op' = Op("mark_will_leak", buffer_set, Unit)
    /\ UNCHANGED <<layer, layer_live, panicked, requests, buffer_set, collected>>

\* LayerBuffer::mark_wont_leak by the holder of a buffer.
MarkWontLeak ==
    /\ ~panicked
    /\ \E buffer \in Range(buffer_set) \cup Range(collected) :
           /\ surfaces' = LayerBuffer_mark_wont_leak(buffer, surfaces)
           /\ last_op' = Op("mark_wont_leak", buffer, Unit)
    /\ UNCHANGED <<layer, layer_live, panicked, requests, buffer_set, collected>>

\* The sequence with what is left of its i-th element in that element's place.
Replace(seq, i, kept) == SubSeq(seq, 1, i - 1) \o kept \o SubSeq(seq, i + 1, Len(seq))

\* LayerBuffer::destroy on a buffer of the set in flight.  (A surface is
\* followed through at most two calls of destroy.)
DestroyInSet ==
    /\ ~panicked
    /\ \E i \in DOMAIN buffer_set :
         LET r == LayerBuffer_destroy(buffer_set[i], surfaces)
         IN  /\ surfaces[buffer_set[i].native_surface].destroys < 2
             /\ surfaces' = r.surfaces
             /\ buffer_set' = Replace(buffer_set, i, r.kept)
             /\ last_op' = Op("destroy", buffer_set[i], Unit)
    /\ UNCHANGED <<layer, layer_live, panicked, requests, collected>>

\* LayerBuffer::destroy on a buffer a collect call returned.
DestroyCollected ==
    /\ ~panicked
    /\ \E i \in DOMAIN collected :
         LET r == LayerBuffer_destroy(collected[i], surfaces)
         IN  /\ surfaces[collected[i].native_surface].destroys < 2
             /\ surfaces' = r.surfaces
             /\ collected' = Replace(collected, i, r.kept)
             /\ last_op' = Op("destroy", collected[i], Unit)
    /\ UNCHANGED <<layer, layer_live, panicked, requests, buffer_set>>

\* The layer value is dropped.  Layer has no Drop of its own, so its fields
\* are dropped in turn: the tile grid goes with every buffer it pools, and
\* destroy is called on none of them.
DropLayer ==
    /\ Callable
    /\ layer_live' = FALSE
    /\ surfaces' = [id \in SurfaceIds |->
                       IF \E b \in TileGrid_buffers(layer.tile_grid) : b.native_surface = id
                       THEN NativeSurface_drop(surfaces[id])
                       ELSE surfaces[id]]
    /\ last_op' = Op("drop_layer", Unit, Unit)
    /\ UNCHANGED <<layer, panicked, requests, buffer_set, collected>>

(***************************************************************************)
(* Calls on one tile buffer that its holder has made with any field        *)
(* values: the buffer is the one element of buffer_set.                    *)
(***************************************************************************)
\* The f32 values up to four times the largest significand.
F32Args == {x \in 0 .. (2 ^ (F32Bits + 2)) : f32_round(x) = x}

\* screen_pos.origin, rect, stride, painted_with_cpu, content_age
OtherFieldArgs ==
    {<<Point2D(0, 0), Rect(0, 0, 1, 1), 1, TRUE, [age |-> 0]>>,
     <<Point2D(1, 0), Rect(1, 0, 2, 2), 2, FALSE, [age |-> 1]>>}

InitBuffer ==
    \E w \in 0 .. UsizeMax, h \in 0 .. UsizeMax, resolution \in F32Args,
       other \in OtherFieldArgs :
        LET buffer == LayerBuffer(1, other[2], [origin |-> other[1], size |-> Size2D(w, h)],
                                  resolution, other[3], other[4], other[5])
        IN  /\ layer = Layer_new(Rect(0, 0, 2, 1), 2, "white", 1, "d1")
            /\ layer_live = TRUE
            /\ panicked = FALSE
            /\ requests = {}
            /\ buffer_set = <<buffer>>
            /\ collected = <<>>
            /\ surfaces = [id \in SurfaceIds |->
                               IF id = 1 THEN NativeSurface_new ELSE NoSurface]
            /\ last_op = Op("LayerBuffer", buffer, Unit)

GetMem ==
    /\ ~panicked
    /\ \E i \in DOMAIN buffer_set : \E o \in get_mem(buffer_set[i]) :
           /\ panicked' = o.panic
           /\ last_op' = Op("get_mem", buffer_set[i], o.value)
    /\ UNCHANGED <<layer, layer_live, requests, buffer_set, collected, surfaces>>

IsValid ==
    /\ ~panicked
    /\ \E i \in DOMAIN buffer_set : \E scale \in F32Args :
           last_op' = Op("is_valid", <<buffer_set[i], scale>>, is_valid(buffer_set[i], scale))
    /\ UNCHANGED <<layer, layer_live, panicked, requests, buffer_set, collected, surfaces>>

GetSize2D ==
    /\ ~panicked
    /\ \E i \in DOMAIN buffer_set :
           last_op' = Op("get_size_2d", buffer_set[i], get_size_2d(buffer_set[i]))
    /\ UNCHANGED <<layer, layer_live, panicked, requests, buffer_set, collected, surfaces>>

(***************************************************************************)
(* Spec: the layer's own fields under every call that touches no buffer.   *)
(***************************************************************************)
Next ==
    \/ AddChild
    \/ RemoveChildAtIndex
    \/ Resize
    \/ ContentsChanged
    \/ CreateTextures
    \/ DoForAllTiles
    \/ DropLayer

Spec == Init /\ [][Next]_vars

(***************************************************************************)
(* SpecTiles: buffer requests going out and painted buffers coming back,   *)
(* while the layer's contents and size change.                             *)
(***************************************************************************)
NextTiles ==
    \/ ContentsChangedBounded
    \/ Resize
    \/ GetBufferRequests
    \/ Paint
    \/ AddBuffer
    \/ CollectUnusedBuffers
    \/ CollectBuffers

SpecTiles == InitTiles /\ [][NextTiles]_vars

(***************************************************************************)
(* SpecOwners: who holds a tile buffer, and what becomes of its surface.   *)
(***************************************************************************)
NextOwners ==
    \/ GetBufferRequests
    \/ Paint
    \/ SetMarkWillLeak
    \/ MarkWontLeak
    \/ AddBuffer
    \/ CollectUnusedBuffers
    \/ CollectBuffers
    \/ DestroyInSet
    \/ DestroyCollected
    \/ DropLayer

SpecOwners == InitOwners /\ [][NextOwners]_vars

(***************************************************************************)
(* SpecLayer: the calls that change the layer or its tile grid, and the    *)
(* painting task.                                                          *)
(***************************************************************************)
NextLayer ==
    \/ AddChild
    \/ RemoveChildAtIndex
    \/ Resize
    \/ ContentsChangedBounded
    \/ GetBufferRequests
    \/ AddBuffer
    \/ CollectUnusedBuffers
    \/ CollectBuffers
    \/ Paint

SpecLayer == InitTiles /\ [][NextLayer]_vars

(***************************************************************************)
(* SpecFrame: a layer that gets children and tile buffers while its size   *)
(* and its contents change.                                                *)
(***************************************************************************)
NextFrame ==
    \/ AddChild
    \/ Resize
    \/ ContentsChangedBounded
    \/ GetBufferRequests
    \/ Paint
    \/ AddBuffer

SpecFrame == InitTiles /\ [][NextFrame]_vars

(***************************************************************************)
(* SpecBorrows: calls made while a guard of the children is kept, and      *)
(* calls made by a visitor from inside do_for_all_tiles.                   *)
(***************************************************************************)
NextBorrows ==
    \/ Children
    \/ DropChildren
    \/ AddChild
    \/ RemoveChildAtIndex
    \/ GetBufferRequests
    \/ Paint
    \/ AddBuffer
    \/ CollectUnusedBuffers
    \/ CollectBuffers
    \/ CreateTextures
    \/ DoForAllTiles

SpecBorrows == InitTiles /\ [][NextBorrows]_vars

(***************************************************************************)
(* SpecBuffer: the methods of one tile buffer that read its fields.        *)
(***************************************************************************)
NextBuffer ==
    \/ GetMem
    \/ IsValid
    \/ GetSize2D

SpecBuffer == InitBuffer /\ [][NextBuffer]_vars

(***************************************************************************)
(* Properties.                                                             *)
(***************************************************************************)
Age(l) == l.content_age.age

\* C1: a buffer request that was handed out keeps its content age whatever
\* is called on the layer afterwards: every request the painting task holds
\* is held unchanged after every step, until the painting task consumes it.
C1_RequestKeepsContentAge ==
    [][\A r \in requests :
          \/ r \in requests'
          \/ last_op'.name = "paint" /\ last_op'.arg = r]_vars

\* C1 happens: contents_changed has just been called while a request of the
\* content age before it is still held.
C1_Witness ==
    /\ last_op.name = "contents_changed"
    /\ ~panicked
    /\ \E r \in requests : r.content_age # layer.content_age

\* C2: a buffer delivered with add_buffer whose content age differs from the
\* layer's content age at delivery is not pooled as a tile.
C2_StaleBufferDiscarded ==
    [][last_op'.name = "add_buffer" /\ last_op'.arg.content_age # layer.content_age
          => last_op'.arg \notin layer'.tile_grid.tiles]_vars

\* C3: every call of contents_changed makes the content age one more than
\* it was.
C3_AdvancesByOne ==
    [][last_op'.name = "contents_changed" => Age(layer') = Age(layer) + 1]_vars

\* C4: no step makes the content age smaller, and only contents_changed
\* changes it.
C4_OnlyIncreases ==
    [][/\ Age(layer') >= Age(layer)
       /\ Age(layer') # Age(layer) => last_op'.name = "contents_changed"]_vars

\* C5: every request get_buffer_requests returns carries the content age
\* the layer has when it is called.
C5_TaggedWithCurrentAge ==
    [][last_op'.name = "get_buffer_requests"
          => \A k \in DOMAIN last_op'.ret :
                 last_op'.ret[k].content_age = layer.content_age]_vars

\* C5 happens: get_buffer_requests has returned requests on a layer whose
\* contents have changed since it was made.
C5_Witness ==
    /\ last_op.name = "get_buffer_requests"
    /\ Len(last_op.ret) > 0
    /\ Age(layer) > 0

\* The buffers held by anyone: in flight, pooled by the layer's grid while
\* the layer lives, or returned to a caller.
HeldBuffers ==
    Range(buffer_set) \cup Range(collected)
        \cup (IF layer_live THEN TileGrid_buffers(layer.tile_grid) ELSE {})

\* C6 as stated: destroy is called on no surface more than once, and no
\* buffer is let go of without destroy.
C6_DestroyedExactlyOnce ==
    \A id \in SurfaceIds :
        /\ surfaces[id].destroys <= 1
        /\ surfaces[id].state # "dropped"

\* C6 as amended: destroy is called on no surface more than once, and a
\* buffer that was destroyed is held by no one afterwards.
C6_DestroyedAtMostOnce ==
    \A id \in SurfaceIds :
        /\ surfaces[id].destroys <= 1
        /\ surfaces[id].state = "destroyed"
              => ~ \E b \in HeldBuffers : b.native_surface = id

\* C6 happens: destroy has just been called on a buffer, once, while the
\* layer still pools another buffer.
C6_Witness ==
    /\ last_op.name = "destroy"
    /\ surfaces[last_op.arg.native_surface].state = "destroyed"
    /\ surfaces[last_op.arg.native_surface].destroys = 1
    /\ layer_live
    /\ layer.tile_grid.tiles # {}

\* C8: LayerBufferSet::mark_will_leak leaves the surface of every buffer of
\* the set marked will_leak, and leaves the set's buffers and their order
\* as they were.
C8_SetMarksEveryBuffer ==
    last_op.name = "mark_will_leak"
        => /\ buffer_set = last_op.arg
           /\ \A k \in DOMAIN last_op.arg :
                  surfaces[last_op.arg[k].native_surface].mark = "will_leak"

\* C8 happens: mark_will_leak has been called on a set of two buffers.
C8_Witness ==
    /\ last_op.name = "mark_will_leak"
    /\ Len(last_op.arg) = 2

\* C9: a layer made by Layer::new has content age 0, the identity
\* transform, content offset zero, no children, masks_to_bounds false, and
\* the bounds, tile size, background color, opacity and payload passed.
C9_NewLayer ==
    last_op.name = "new"
        => /\ layer.content_age = [age |-> 0]
           /\ layer.transform = "identity"
           /\ layer.content_offset = [x |-> 0, y |-> 0]
           /\ layer.children = <<>>
           /\ layer.masks_to_bounds = FALSE
           /\ layer.bounds = last_op.arg[1]
           /\ layer.tile_size = last_op.arg[2]
           /\ layer.background_color = last_op.arg[3]
           /\ layer.opacity = last_op.arg[4]
           /\ layer.extra_data = last_op.arg[5]

\* C9 happens: a layer has just been made with bounds away from the origin.
C9_Witness ==
    /\ last_op.name = "new"
    /\ last_op.arg[1].origin = [x |-> 1, y |-> 1]
    /\ last_op.arg[3] = "black"

\* C10: add_child puts the child after the children there are, which stay
\* as they were; remove_child_at_index with an index below the number of
\* children takes out the child at that index and moves every later child
\* one place down.
C10_ChildrenInOrder ==
    [][/\ last_op'.name = "add_child"
            => /\ Len(layer'.children) = Len(layer.children) + 1
               /\ layer'.children[Len(layer'.children)] = last_op'.arg
               /\ \A k \in DOMAIN layer.children :
                      layer'.children[k] = layer.children[k]
       /\ last_op'.name = "remove_child_at_index" /\ last_op'.arg < Len(layer.children)
            => /\ Len(layer'.children) = Len(layer.children) - 1
               /\ \A k \in DOMAIN layer'.children :
                      layer'.children[k] =
                          IF k - 1 < last_op'.arg
                          THEN layer.children[k]
                          ELSE layer.children[k + 1]]_vars

\* C10 happens: the first of two different children has been removed and
\* the second has moved down to its place.
C10_Witness ==
    /\ last_op.name = "remove_child_at_index"
    /\ last_op.arg = 0
    /\ ~panicked
    /\ layer.children = <<"B">>

\* C11: remove_child_at_index with an index that is not below the number of
\* children, on an empty child list too, ends in a panic and leaves the
\* children, and the rest of the layer, as they were.
C11_OutOfRangeIsFatal ==
    [][last_op'.name = "remove_child_at_index" /\ last_op'.arg >= Len(layer.children)
          => /\ panicked'
             /\ layer'.children = layer.children
             /\ layer' = layer]_vars

\* C11 happens: remove_child_at_index was called with the number of
\* children, two, as the index, and panicked.
C11_Witness ==
    /\ last_op.name = "remove_child_at_index"
    /\ last_op.arg = 2
    /\ Len(layer.children) = 2
    /\ panicked

\* C12: resize changes bounds.size to the size passed and nothing else:
\* the origin of bounds, the transform, the content offset, the content
\* age, the children, the tile size, masks_to_bounds, the background
\* color, the opacity, the payload and the tile grid with its pool stay as
\* they were, and so does everything outside the layer.
C12_ResizeChangesOnlySize ==
    [][last_op'.name = "resize"
          => /\ layer'.bounds.size = last_op'.arg
             /\ layer'.bounds.origin = layer.bounds.origin
             /\ layer'.transform = layer.transform
             /\ layer'.content_offset = layer.content_offset
             /\ layer'.content_age = layer.content_age
             /\ layer'.children = layer.children
             /\ layer'.tile_size = layer.tile_size
             /\ layer'.masks_to_bounds = layer.masks_to_bounds
             /\ layer'.background_color = layer.background_color
             /\ layer'.opacity = layer.opacity
             /\ layer'.extra_data = layer.extra_data
             /\ layer'.tile_grid = layer.tile_grid
             /\ ~panicked'
             /\ UNCHANGED <<layer_live, requests, buffer_set, collected, surfaces>>]_vars

\* C12 happens: resize has just changed the size of a layer that has a
\* child, a pooled tile buffer and contents that have changed.
C12_Witness ==
    /\ last_op.name = "resize"
    /\ layer.bounds.size = [width |-> 1, height |-> 1]
    /\ layer.children # <<>>
    /\ layer.tile_grid.tiles # {}
    /\ layer.content_age.age > 0

\* C13: no call ends in a panic but remove_child_at_index with an index
\* that is not below the number of children.
C13_OnlyRemoveIsFatal ==
    panicked => /\ last_op.name = "remove_child_at_index"
                /\ last_op.arg >= Len(layer.children)

\* C14: get_mem returns the width of screen_pos times its height, whatever
\* the two are and whatever the other fields of the buffer hold.
C14_GetMemIsWidthTimesHeight ==
    last_op.name = "get_mem"
        => /\ ~panicked
           /\ last_op.ret = last_op.arg.screen_pos.size.width
                               * last_op.arg.screen_pos.size.height

\* C15 as stated: is_valid(scale) is true exactly when the distance between
\* resolution and scale, as numbers, is less than 1.0e-6.
C15_ValidIffWithinOneMillionth ==
    last_op.name = "is_valid"
        => LET d == last_op.arg[1].resolution - last_op.arg[2]
           IN  last_op.ret = ((IF d >= 0 THEN d ELSE -d) < OneMillionth)

\* C15 as amended: is_valid(scale) is true exactly when the distance
\* between resolution and scale, rounded to f32, is less than the f32
\* nearest to 1.0e-6, which is below 1.0e-6.  So a distance of 1.0e-6 or
\* more is never valid, a distance equal to that f32 is not valid although
\* it is below 1.0e-6, and a distance below that f32 is valid unless it
\* rounds up to it.
C15_ValidIffRoundedWithin ==
    last_op.name = "is_valid"
        => LET d == last_op.arg[1].resolution - last_op.arg[2]
               dist == IF d >= 0 THEN d ELSE -d
               nearest == CHOOSE t \in F32Args :
                              \A u \in F32Args :
                                  (t - OneMillionth) * (t - OneMillionth)
                                      <= (u - OneMillionth) * (u - OneMillionth)
           IN  /\ nearest < OneMillionth
               /\ last_op.ret = (f32_round(dist) < nearest)
               /\ dist >= OneMillionth => last_op.ret = FALSE
               /\ dist = nearest => last_op.ret = FALSE
               /\ dist < nearest /\ f32_round(dist) # nearest => last_op.ret = TRUE

\* C15 happens: is_valid was called with a scale whose distance from the
\* resolution is the f32 nearest to 1.0e-6, and returned false.
C15_Witness ==
    /\ last_op.name = "is_valid"
    /\ last_op.arg[1].resolution - last_op.arg[2] = f32_1_0e_6
    /\ last_op.arg[2] > 0
    /\ last_op.ret = FALSE

\* C16: get_buffer_requests hands the tile grid the rectangle in device
\* pixels (each coordinate of rect_in_layer times the scale), the size of
\* bounds at the call in device pixels, and the content age at the call:
\* the grid is left as, and the requests returned are what, the grid makes
\* of exactly these three values.
C16_ScaledBeforeDelegating ==
    [][last_op'.name = "get_buffer_requests"
          => LET rect == last_op'.arg[1]
                 scale == last_op'.arg[2]
                 device_rect == [origin |-> [x |-> rect.origin.x * scale,
                                             y |-> rect.origin.y * scale],
                                 size |-> [width |-> rect.size.width * scale,
                                           height |-> rect.size.height * scale]]
                 device_size == [width |-> layer.bounds.size.width * scale,
                                 height |-> layer.bounds.size.height * scale]
                 r == TileGrid_get_buffer_requests_in_rect(
                          layer.tile_grid, device_rect, device_size, layer.content_age)
             IN  /\ layer'.tile_grid = r.grid
                 /\ last_op'.ret = r.requests
                 /\ layer'.tile_grid.content_age = layer.content_age]_vars

\* C16 happens: get_buffer_requests was called with a scale of 2 for a
\* rectangle 2 layer pixels wide and returned requests for two tiles of 2
\* device pixels, the second of which lies past the unscaled rectangle.
C16_Witness ==
    /\ last_op.name = "get_buffer_requests"
    /\ last_op.arg[2] = 2
    /\ last_op.arg[1].size.width = 2
    /\ Len(last_op.ret) = 2
    /\ last_op.ret[2].screen_rect.origin.x = 2

\* C17: while the guard that children() returned is kept, add_child,
\* remove_child_at_index and children() panic and leave the layer as it
\* was; a visitor that calls add_buffer, collect_buffers,
\* collect_unused_buffers, get_buffer_requests or create_textures on the
\* layer from inside do_for_all_tiles makes the call panic; and whatever
\* the visitor does, the tile grid after do_for_all_tiles is the tile grid
\* before it.
C17_ExclusiveAccess ==
    [][/\ (/\ layer.children_borrow # 0
            /\ last_op'.name \in {"add_child", "remove_child_at_index", "children"})
           => panicked' /\ layer' = layer
       /\ last_op'.name = "do_for_all_tiles"
           => /\ layer'.tile_grid = layer.tile_grid
              /\ layer' = layer
              /\ UNCHANGED <<requests, buffer_set, collected, surfaces>>
              /\ panicked' = (last_op'.arg.call # "read" /\ layer.tile_grid.tiles # {})]_vars

\* C17 happens: a visitor has called collect_buffers from inside
\* do_for_all_tiles on a layer that pools a tile buffer, and the call
\* panicked with the buffer still pooled.
C17_Witness ==
    /\ last_op.name = "do_for_all_tiles"
    /\ last_op.arg.call = "collect_buffers"
    /\ panicked
    /\ layer.tile_grid.tiles # {}

\* How many of the buffers of a list are on the surface id.
CountIn(seq, id) == Cardinality({k \in DOMAIN seq : seq[k].native_surface = id})

\* How many holders the buffer on the surface id has: the set in flight to
\* the layer, the layer's pool (on display or unused), the lists the
\* collect calls returned.
Owners(id) ==
    CountIn(buffer_set, id)
        + Cardinality({b \in layer.tile_grid.tiles : b.native_surface = id})
        + CountIn(layer.tile_grid.unused_buffers, id)
        + CountIn(collected, id)

\* C18: every tile buffer that was painted has exactly one holder: until
\* add_buffer the deliverer, then the layer's pool, and after a collect
\* call the caller that the one call returned it to; no buffer is pooled
\* and returned at once, and none is returned twice.
C18_OneOwner ==
    \A id \in SurfaceIds :
        /\ surfaces[id].state = "live" => Owners(id) = 1
        /\ surfaces[id].state = "none" => Owners(id) = 0
        /\ last_op.name = "add_buffer" /\ last_op.arg.native_surface = id
              => CountIn(buffer_set, id) = 0
        /\ last_op.name \in {"collect_buffers", "collect_unused_buffers"}
              => CountIn(last_op.ret, id) = CountIn(collected, id)
                    \/ CountIn(last_op.ret, id) = 0

\* C18 happens: collect_unused_buffers has returned the buffer that a newer
\* one replaced, while the newer one is pooled.
C18_Witness ==
    /\ last_op.name = "collect_unused_buffers"
    /\ Len(last_op.ret) = 1
    /\ layer.tile_grid.tiles # {}
    /\ Len(collected) = 1

\* C19: contents_changed changes the content age and nothing else: the
\* children, the transform, bounds, the content offset, masks_to_bounds, the
\* background color, the opacity, the payload, the tile size and the tile
\* grid, with the buffers of older content ages it pools, stay as they
\* were, and so does everything outside the layer.
C19_ContentsChangedChangesOnlyAge ==
    [][last_op'.name = "contents_changed"
          => /\ layer'.children = layer.children
             /\ layer'.transform = layer.transform
             /\ layer'.bounds = layer.bounds
             /\ layer'.content_offset = layer.content_offset
             /\ layer'.masks_to_bounds = layer.masks_to_bounds
             /\ layer'.background_color = layer.background_color
             /\ layer'.opacity = layer.opacity
             /\ layer'.extra_data = layer.extra_data
             /\ layer'.tile_size = layer.tile_size
             /\ layer'.tile_grid = layer.tile_grid
             /\ layer' = [layer EXCEPT !.content_age = layer'.content_age]
             /\ UNCHANGED <<layer_live, requests, buffer_set, collected, surfaces>>]_vars

\* C19 happens: contents_changed has just been called on a layer that has a
\* child and pools a buffer, which is now of an older content age.
C19_Witness ==
    /\ last_op.name = "contents_changed"
    /\ ~panicked
    /\ layer.children # <<>>
    /\ \E b \in layer.tile_grid.tiles : b.content_age.age < layer.content_age.age

====
